---- MODULE Spec2Model ----
(***************************************************************************)
(* Model of the recommendation pipeline of gourmet-guide-be                *)
(* (src/src/application/restaurant_workflow.py): the LLM-response          *)
(* extractor parse_llm_response_to_json, the locality resolver             *)
(* get_nearest_service_area and the request handler                        *)
(* get_restaurant_recommendations_service.                                 *)
(*                                                                         *)
(* Texts are sequences of lexical tokens.  A token is a record [k, v]:     *)
(*   FO  the fence opener ```json          FC  the bare fence ```          *)
(*   LB  a lone {                          RB  a lone }                    *)
(*   BX  the word \boxed                   WS  white space                 *)
(*   PR  a word of prose (no brace, no backtick, not JSON)                 *)
(*   M   the member text "match_score": 0.5 (no braces of its own)         *)
(*   J   a complete JSON object literal { ... } whose data is v            *)
(*   ARR a complete JSON array literal [ ... ] whose data is v             *)
(*   FRAG a piece of a J literal cut by a regex group                      *)
(***************************************************************************)
EXTENDS Integers, Sequences, FiniteSets, TLC

VARIABLES
    response_content,   \* SpecParse: the text handed to parse_llm_response_to_json
    parsed,             \* SpecParse: what the call produced
    area_in,            \* SpecArea: coordinates and the two providers' replies
    area_out,           \* SpecArea: what get_nearest_service_area produced
    pc,                 \* Spec: where the request handler stands
    request,            \* Spec: the recommendation request
    limit,              \* Spec: the limit after defaulting
    fetch_area,         \* Spec: the service area the venue fetch used
    restaurants_data,   \* Spec: result["restaurants_data"], the candidates
    analysis_response,  \* Spec: result["analysis_response"], the LLM text
    service_area,       \* Spec: the service area resolved for the URLs
    response,           \* Spec: the RecommendationsResponse returned
    error,              \* Spec: the exception that ended the request, or ""
    calls,              \* the provider calls the request has made, in order
    session_id,         \* the uuid of the request, numbered as generated
    db,                 \* the restaurant_recommendations table, in insert order
    http,               \* the status and error code the route answered with
    fetch_in,           \* SpecFetch: the locality pair and the venue provider's reply
    fetch_out,          \* SpecFetch: what fetch_restaurants_from_gofood returned
    geocode_in,         \* SpecGeocode: the address and the geocoder's reply
    geocode_out,        \* SpecGeocode: what geocode_address_service produced
    handlers            \* SpecPair: the locals of two concurrent route handlers

parse_vars == <<response_content, parsed>>
area_vars == <<area_in, area_out>>
svc_vars == <<pc, request, limit, fetch_area, restaurants_data, analysis_response,
              service_area, response, error, calls, session_id, db, http>>
fetch_vars == <<fetch_in, fetch_out>>
geocode_vars == <<geocode_in, geocode_out>>
pair_vars == <<handlers>>
\* what two concurrent handlers share: the table and the source of ids
shared_vars == <<session_id, db>>
single_vars == <<pc, request, limit, fetch_area, restaurants_data, analysis_response,
                 service_area, response, error, calls, http>>
vars == <<response_content, parsed, area_in, area_out, pc, request, limit, fetch_area,
          restaurants_data, analysis_response, service_area, response, error,
          calls, session_id, db, http, fetch_in, fetch_out, geocode_in, geocode_out,
          handlers>>

---------------------------------------------------------------------------
(* JSON data.  A score is a number in tenths (9 is 0.9), a string or null. *)

Num(n) == [k |-> "num", n |-> n]
StrScore == [k |-> "str", n |-> 0]
NullScore == [k |-> "null", n |-> 0]

Entry(id, expl) == [id |-> id, expl |-> expl]

JObj(hasSel, sel, hasMs, ms) ==
    [t |-> "obj", hasSel |-> hasSel, sel |-> sel, hasMs |-> hasMs, ms |-> ms]

EmptyObj == JObj(FALSE, <<>>, FALSE, NullScore)
JArr == [t |-> "arr", hasSel |-> FALSE, sel |-> <<>>, hasMs |-> FALSE, ms |-> NullScore]
NoJson == [t |-> "none", hasSel |-> FALSE, sel |-> <<>>, hasMs |-> FALSE, ms |-> NullScore]

\* {"selected_restaurants": [], "match_score": 0.0}
DefaultAnalysis == JObj(TRUE, <<>>, TRUE, Num(0))

Tok(k) == [k |-> k, v |-> NoJson]
TokJ(data) == [k |-> "J", v |-> data]
TokM == [k |-> "M", v |-> JObj(FALSE, <<>>, TRUE, Num(5))]
TokArr == [k |-> "ARR", v |-> JArr]

Text(toks) == [present |-> TRUE, toks |-> toks]
NoneText == [present |-> FALSE, toks |-> <<>>]

---------------------------------------------------------------------------
(* Helpers on token sequences.                                             *)

Kinds == {"FO", "FC", "LB", "RB", "BX", "WS", "PR", "M", "J", "ARR", "FRAG"}
WSKinds == {"WS"}
FenceOpenKinds == {"FO"}
\* the three backticks that close a fence are also the first three
\* characters of the opener
FenceKinds == {"FO", "FC"}
\* tokens whose text has a { / a }
OpenBraceKinds == {"LB", "J"}
CloseBraceKinds == {"RB", "J"}

IsWS(t) == t.k \in WSKinds
IsFence(t) == t.k \in FenceKinds
HasOpenBrace(t) == t.k \in OpenBraceKinds
HasCloseBrace(t) == t.k \in CloseBraceKinds

\* the first / last position of s holding a token of one of the kinds, or 0
FirstIdx(s, kinds) ==
    IF \E i \in 1..Len(s) : s[i].k \in kinds
    THEN CHOOSE i \in 1..Len(s) :
            s[i].k \in kinds /\ \A j \in 1..(i - 1) : s[j].k \notin kinds
    ELSE 0

LastIdx(s, kinds) ==
    IF \E i \in 1..Len(s) : s[i].k \in kinds
    THEN CHOOSE i \in 1..Len(s) :
            s[i].k \in kinds /\ \A j \in (i + 1)..Len(s) : s[j].k \notin kinds
    ELSE 0

StripWS(s) == SelectSeq(s, LAMBDA t : ~IsWS(t))

\* s without its leading and trailing white space
Trim(s) ==
    LET a == FirstIdx(s, Kinds \ WSKinds)
        b == LastIdx(s, Kinds \ WSKinds)
    IN  IF a = 0 THEN <<>> ELSE SubSeq(s, a, b)

Failed == [ok |-> FALSE, val |-> NoJson]
Loaded(v) == [ok |-> TRUE, val |-> v]

\* json.loads on a token text: white space is insignificant; the text is
\* JSON iff it is one complete literal, {} or {member}.  ok = FALSE is
\* json.JSONDecodeError.
JsonLoads(toks) ==
    LET s == StripWS(toks)
    IN  IF Len(s) = 1 /\ s[1].k \in {"J", "ARR"} THEN Loaded(s[1].v)
        ELSE IF Len(s) = 2 /\ s[1].k = "LB" /\ s[2].k = "RB" THEN Loaded(EmptyObj)
        ELSE IF Len(s) = 3 /\ s[1].k = "LB" /\ s[2].k = "M" /\ s[3].k = "RB"
             THEN Loaded(s[2].v)
        ELSE Failed

NoMatch == [found |-> FALSE, group |-> <<>>]
Match(g) == [found |-> TRUE, group |-> g]

\* re.search(r"```json\s*([\s\S]*?)\s*```", text): the leftmost opener, the
\* lazy group up to the next three backticks, white space around it left
\* out of the group
FencedSearch(toks) ==
    LET i == FirstIdx(toks, FenceOpenKinds)
        rest == IF i = 0 THEN <<>> ELSE SubSeq(toks, i + 1, Len(toks))
        j == FirstIdx(rest, FenceKinds)
    IN  IF i = 0 \/ j = 0 THEN NoMatch
        ELSE Match(Trim(SubSeq(rest, 1, j - 1)))

\* re.search(r"({[\s\S]*})", text): greedy, the first { to the last }
BraceSearch(toks) ==
    LET i == FirstIdx(toks, OpenBraceKinds)
        j == LastIdx(toks, CloseBraceKinds)
    IN  IF i = 0 \/ j = 0 \/ j < i THEN NoMatch
        ELSE Match(SubSeq(toks, i, j))

\* re.search(r"\\boxed{([\s\S]*)}", text): \boxed directly followed by a {,
\* greedy to the last }.  A J literal cut open by the match leaves a
\* fragment in the group.
BoxedSearch(toks) ==
    LET starts == {i \in 1..(Len(toks) - 1) :
                      /\ toks[i].k = "BX"
                      /\ HasOpenBrace(toks[i + 1])
                      /\ \E j \in (i + 1)..Len(toks) : HasCloseBrace(toks[j])}
        i == CHOOSE x \in starts : \A y \in starts : x <= y
        j == LastIdx(toks, CloseBraceKinds)
        inner == [n \in 1..(j - i) |->
                    IF toks[i + n].k = "J" /\ (n = 1 \/ i + n = j)
                    THEN Tok("FRAG") ELSE toks[i + n]]
    IN  IF starts = {} THEN NoMatch
        ELSE Match(SubSeq(inner,
                          IF toks[i + 1].k = "LB" THEN 2 ELSE 1,
                          IF toks[j].k = "RB" THEN j - i - 1 ELSE j - i))

---------------------------------------------------------------------------
(* parse_llm_response_to_json                                              *)

Ret(v) == [raised |-> FALSE, val |-> v]
Raise == [raised |-> TRUE, val |-> NoJson]

\* "return json.loads(json_str)" inside the inner try: the value, or the
\* JSONDecodeError raised there
ReturnLoads(group) ==
    LET r == JsonLoads(group) IN IF r.ok THEN Ret(r.val) ELSE Raise

\* brace rule consulted before the fenced rule
ExtractFromText_BraceFirst(toks) ==
    LET b == BraceSearch(toks)
        f == FencedSearch(toks)
    IN  IF b.found THEN ReturnLoads(b.group)
        ELSE IF f.found THEN ReturnLoads(f.group)
        ELSE Raise

\* the body of the inner try, lines 385-422: an if / else chain, one
\* branch taken, whatever its json.loads does
ExtractFromText(toks) ==
    LET f == FencedSearch(toks)
        b == BraceSearch(toks)
        x == BoxedSearch(toks)
        g == FencedSearch(x.group)
    IN  IF f.found THEN ReturnLoads(f.group)
        ELSE IF b.found THEN ReturnLoads(b.group)
        ELSE IF x.found
             THEN IF g.found THEN ReturnLoads(g.group) ELSE Raise
        ELSE Raise

\* the handler forgotten: the exception leaves the function
CatchAll_Reraise(r) == r

\* "except Exception as e: ... return {...}", lines 423-426
CatchAll(r) == IF r.raised THEN Ret(DefaultAnalysis) ELSE r

ParseLlmResponseToJson(rc) ==
    IF ~rc.present \/ rc.toks = <<>> THEN Ret(DefaultAnalysis)
    ELSE LET whole == JsonLoads(rc.toks)
         IN  IF whole.ok THEN Ret(whole.val)
             ELSE CatchAll(ExtractFromText(rc.toks))

---------------------------------------------------------------------------
(* get_nearest_service_area and calculate_distance                         *)

\* str.lower() on the names the providers use here
Lower(str) ==
    CASE str = "Bali" -> "bali"
      [] str = "Jawa" -> "jawa"
      [] str = "Kuta" -> "kuta"
      [] str = "Denpasar" -> "denpasar"
      [] OTHER -> str

\* a JSON member read with .get(key, ""): absent, null or a string
Absent == [k |-> "absent", s |-> ""]
Null == [k |-> "null", s |-> ""]
Str(x) == [k |-> "str", s |-> x]

\* 4 * sin(d/2)^2 for a difference d of whole degrees, a multiple of 60
Sin2Half4(d) ==
    LET m == (IF d < 0 THEN 0 - d ELSE d) % 360
    IN  CASE m = 0 -> 0
          [] m \in {60, 300} -> 1
          [] m \in {120, 240} -> 3
          [] m = 180 -> 4

\* 2 * cos(lat) for a latitude of 0 or +-60 degrees
Cos2(lat) == IF lat = 0 THEN 2 ELSE 1

\* calculate_distance, lines 337-352: the haversine term a, times 16.  The
\* distance R * 2 * atan2(sqrt(a), sqrt(1 - a)) grows strictly with a on
\* [0, 1], so comparing 16a compares the distances and 16a = 0 iff the
\* distance is 0.
CalculateDistance(lat1, lon1, lat2, lon2) ==
    4 * Sin2Half4(lat2 - lat1) + Cos2(lat1) * Cos2(lat2) * Sin2Half4(lon2 - lon1)

\* more than every value of CalculateDistance: float("inf"), line 263
Infinity == 17

\* the loop of lines 265-281 over locations[n..]: the first location, among
\* those with both coordinates, strictly nearer than all before it
RECURSIVE NearestFrom(_, _, _, _, _)
NearestFrom(locations, n, coordinates, min_distance, nearest) ==
    IF n > Len(locations) THEN nearest
    ELSE LET location == locations[n]
             distance == CalculateDistance(coordinates.latitude, coordinates.longitude,
                                           location.latitude, location.longitude)
         IN  IF location.hasLat /\ location.hasLng /\ distance < min_distance
             THEN NearestFrom(locations, n + 1, coordinates, distance, n)
             ELSE NearestFrom(locations, n + 1, coordinates, min_distance, nearest)

\* index of nearest_location, 0 for None
NearestLocation(locations, coordinates) ==
    NearestFrom(locations, 1, coordinates, Infinity, 0)

AreaOk(area, locality) ==
    [raised |-> FALSE, service_area |-> area, locality |-> locality]
AreaRaise == [raised |-> TRUE, service_area |-> "", locality |-> ""]

\* lines 301-311: the pair from the reverse-geocoded city and state
Fallback(address) ==
    AreaOk(IF address.state # "" THEN Lower(address.state) ELSE "bali",
           Lower(IF address.city # "" THEN address.city
                 ELSE IF address.state # "" THEN address.state ELSE "bali"))

\* lines 283-295: .get(name, "").lower() of the nearest location; a null
\* member has no lower() and the AttributeError ends in line 316
FromNearest(location) ==
    IF location.service_area_name.k = "null" \/ location.locality_name.k = "null"
    THEN AreaRaise
    ELSE AreaOk(Lower(location.service_area_name.s),
                IF Lower(location.locality_name.s) = ""
                THEN Lower(location.service_area_name.s)
                ELSE Lower(location.locality_name.s))

\* get_nearest_service_area, lines 218-316.  geo: the reverse geocoder's
\* reply; poi: the place search's reply.  A place search that ends in a
\* requests.exceptions.RequestException (HTTP status, network, timeout)
\* is caught at line 297; a reply that is JSON but no list of objects
\* ("shape") or whose decoding raises another exception ("valueerror")
\* ends in the except of line 313.
GetNearestServiceArea(coordinates, geo, poi) ==
    IF ~geo.ok THEN AreaRaise
    ELSE IF poi.kind = "error" THEN Fallback(geo.address)
    ELSE IF poi.kind \in {"shape", "valueerror"} THEN AreaRaise
    ELSE LET n == NearestLocation(poi.locations, coordinates)
         IN  IF n = 0 THEN Fallback(geo.address)
             ELSE FromNearest(poi.locations[n])

---------------------------------------------------------------------------
(* Provider replies for locality resolution.                               *)

MaxLoc == 2

Coord(lat, lon) == [latitude |-> lat, longitude |-> lon]
CoordinateInputs == {Coord(0, 0), Coord(60, 120)}

Address(city, state) == [city |-> city, state |-> state]
GeoFail == [ok |-> FALSE, address |-> Address("", "")]
GeoReplies ==
    {GeoFail}
    \cup {[ok |-> TRUE, address |-> Address(c, st)] :
            c \in {"", "Denpasar"}, st \in {"", "Bali"}}

\* a place-search candidate with or without its coordinates
Located(lat, lon, san, loc) ==
    [hasLat |-> TRUE, latitude |-> lat, hasLng |-> TRUE, longitude |-> lon,
     service_area_name |-> san, locality_name |-> loc]
Unlocated(san, loc) ==
    [hasLat |-> FALSE, latitude |-> 0, hasLng |-> FALSE, longitude |-> 0,
     service_area_name |-> san, locality_name |-> loc]

LocationPool ==
    {Located(p[1], p[2], san, loc) :
        p \in {<<0, 0>>, <<0, 60>>, <<60, 0>>},
        san \in {Absent, Str(""), Str("Bali"), Str("Jawa")},
        loc \in {Absent, Str("Kuta")}}
    \cup {Unlocated(Str("Jawa"), Str("Kuta")), Unlocated(Str("Bali"), Absent)}
    \cup {Located(0, 0, Null, Str("Kuta")), Located(0, 60, Str("Bali"), Null)}

PoiError == [kind |-> "error", locations |-> <<>>]
PoiList(locations) == [kind |-> "list", locations |-> locations]
\* a reply that is a JSON object, not a list of candidates
PoiShape == [kind |-> "shape", locations |-> <<>>]
\* a reply whose body is no JSON, with a requests library whose json()
\* raises a plain ValueError for it
PoiValueError == [kind |-> "valueerror", locations |-> <<>>]
PoiReplies ==
    {PoiError, PoiShape, PoiValueError}
    \cup {PoiList(l) : l \in UNION {[1..n -> LocationPool] : n \in 0..MaxLoc}}

NoAreaIn == [coordinates |-> Coord(0, 0), geo |-> GeoFail, poi |-> PoiError]
AreaNotCalled == [called |-> FALSE, raised |-> FALSE, service_area |-> "", locality |-> ""]

---------------------------------------------------------------------------
(* fetch_restaurants_from_gofood                                           *)

\* a member read with .get(key, default): absent or an integer
NoInt == [has |-> FALSE, n |-> 0]
Int1(n) == [has |-> TRUE, n |-> n]

\* an outlet of the venue provider's reply
Outlet(uid, hasCore, displayName, tags, priceLevel, average) ==
    [uid |-> uid, hasCore |-> hasCore, displayName |-> displayName, tags |-> tags,
     priceLevel |-> priceLevel, average |-> average, nullNested |-> FALSE]

\* an outlet one of whose nested objects is null: "core": null, or a core
\* and "ratings": null
NullNestedOutlet(uid, displayName) ==
    [uid |-> uid, hasCore |-> TRUE, displayName |-> displayName, tags |-> <<>>,
     priceLevel |-> Int1(2), average |-> 0, nullNested |-> TRUE]

\* lines 180-193: the candidate made of an outlet; a missing priceLevel
\* becomes 0
ProcessedOutlet(outlet) ==
    [id |-> outlet.uid, name |-> outlet.displayName, cuisineTypes |-> outlet.tags,
     priceLevel |-> Int1(IF outlet.priceLevel.has THEN outlet.priceLevel.n ELSE 0),
     ratings |-> outlet.average]

\* lines 177-197: the outlets that have a core, in provider order
ProcessOutlets(outlets) ==
    LET kept == SelectSeq(outlets, LAMBDA o : o.hasCore)
    IN  IF kept = <<>> THEN <<>>
        ELSE [i \in 1..Len(kept) |-> ProcessedOutlet(kept[i])]

\* a fetch that reads the body whatever the status
FetchRestaurantsFromGofood_IgnoreStatus(area, venue) ==
    IF area.raised THEN <<>>
    ELSE ProcessOutlets(venue.outlets)

\* fetch_restaurants_from_gofood, lines 151-215, given what locality
\* resolution and the venue provider answered
\* An outlet with a core whose nested object is null raises AttributeError
\* in lines 182-191 (None has no get) and the except of line 210 returns [].
FetchRestaurantsFromGofood(area, venue) ==
    IF area.raised THEN <<>>
    ELSE IF venue.kind # "ok" THEN <<>>
    ELSE IF \E i \in 1..Len(venue.outlets) :
                venue.outlets[i].hasCore /\ venue.outlets[i].nullNested
    THEN <<>>
    ELSE ProcessOutlets(venue.outlets)

---------------------------------------------------------------------------
(* get_restaurant_recommendations_service, lines 482-566                   *)

DefaultLimit == 5
\* the default match score 0.7, in tenths
DefaultMatchScore == 7

\* "limit = limit or 5", line 461
EffectiveLimit(l) == IF ~l.has \/ l.n = 0 THEN DefaultLimit ELSE l.n

\* a mapping without its default
PriceRange_NoDefault(level) ==
    CASE level.has /\ level.n = 1 -> "$"
      [] level.has /\ level.n = 2 -> "$$"
      [] level.has /\ level.n = 3 -> "$$$"
      [] level.has /\ level.n = 4 -> "$$$$"
      [] OTHER -> ""

\* lines 527-528: price_ranges.get(data.get("priceLevel", 2), "$$")
PriceRange(level) ==
    LET n == IF level.has THEN level.n ELSE 2
    IN  CASE n = 1 -> "$"
          [] n = 2 -> "$$"
          [] n = 3 -> "$$$"
          [] n = 4 -> "$$$$"
          [] OTHER -> "$$"

\* line 502: [r.get("id") for r in result.get("restaurants_data")]
CandidateIds(data) == {data[i].id : i \in 1..Len(data)}

\* lines 503-507: next(r for r in ... if r.get("id") == restaurant_id)
FindCandidate(data, restaurant_id) ==
    data[CHOOSE i \in 1..Len(data) :
            /\ data[i].id = restaurant_id
            /\ \A j \in 1..(i - 1) : data[j].id # restaurant_id]

\* lines 531-552
MakeRestaurant(data, selected, area) ==
    [id |-> data.id, name |-> data.name, rating |-> data.ratings,
     priceRange |-> PriceRange(data.priceLevel), cuisineTypes |-> data.cuisineTypes,
     gojekArea |-> area, aiDescription |-> selected.expl]

\* a selection without a candidate turned into a restaurant of its own
AssembleOne_Fabricate(selected, data, area) ==
    IF selected.id \in CandidateIds(data)
    THEN <<MakeRestaurant(FindCandidate(data, selected.id), selected, area)>>
    ELSE <<[id |-> selected.id, name |-> "", rating |-> 40, priceRange |-> "$$",
            cuisineTypes |-> <<>>, gojekArea |-> area,
            aiDescription |-> selected.expl]>>

\* the body of the loop, lines 501-555: what one selection appends
AssembleOne(selected, data, area) ==
    IF selected.id \in CandidateIds(data)
    THEN <<MakeRestaurant(FindCandidate(data, selected.id), selected, area)>>
    ELSE <<>>

\* the loop run from the last selection to the first
RECURSIVE AssembleFrom_Reversed(_, _, _, _)
AssembleFrom_Reversed(selections, n, data, area) ==
    IF n > Len(selections) THEN <<>>
    ELSE AssembleFrom_Reversed(selections, n + 1, data, area)
            \o AssembleOne(selections[n], data, area)

\* the loop of lines 500-555 over selections[n..]
RECURSIVE AssembleFrom(_, _, _, _)
AssembleFrom(selections, n, data, area) ==
    IF n > Len(selections) THEN <<>>
    ELSE AssembleOne(selections[n], data, area)
            \o AssembleFrom(selections, n + 1, data, area)

NoResponse == [restaurants |-> <<>>, matchScore |-> NullScore]
Responded(r) == [raised |-> "", response |-> r]
Raised(e) == [raised |-> e, response |-> NoResponse]

\* a response that carries the default score whatever was extracted
BuildResponse_DefaultScore(restaurants, analysis) ==
    Responded([restaurants |-> restaurants, matchScore |-> Num(DefaultMatchScore)])

\* lines 557-561: analysis.get("match_score", 0.7) handed to
\* RecommendationsResponse, whose matchScore is Optional[float]: a number
\* or null is taken as it is, a word is refused
BuildResponse(restaurants, analysis) ==
    LET match_score == IF analysis.hasMs THEN analysis.ms ELSE Num(DefaultMatchScore)
    IN  IF match_score.k = "str" THEN Raised("ValidationError")
        ELSE Responded([restaurants |-> restaurants, matchScore |-> match_score])

\* lines 482-566, after both awaits: the response, or the exception
AssembleResponse(data, text, area) ==
    IF data = <<>> THEN Raised("UnboundLocalError")
    ELSE LET analysis == ParseLlmResponseToJson(text).val
         IN  IF analysis.t # "obj" THEN Raised("AttributeError")
             ELSE BuildResponse(
                      AssembleFrom(IF analysis.hasSel THEN analysis.sel ELSE <<>>,
                                   1, data, area),
                      analysis)

---------------------------------------------------------------------------
(* run_restaurant_recommendation_workflow, the service as a whole, and the *)
(* route POST /restaurants/recommendations with its repository.            *)

\* a call to a provider and how it ended
Call(to, outcome) == [to |-> to, outcome |-> outcome]

\* the calls of one get_nearest_service_area: the reverse geocoder (line
\* 232) and, when it answered, the place search (line 254)
AreaCalls(geo, poi) ==
    IF geo.ok THEN <<Call("geocode", "ok"), Call("places", poi.kind)>>
    ELSE <<Call("geocode", "error")>>

\* the calls of one fetch_restaurants_from_gofood: locality resolution
\* (line 153) and, when it returned a pair, the venue provider (line 163)
FetchCalls(coordinates, geo, poi, venue) ==
    AreaCalls(geo, poi)
        \o (IF GetNearestServiceArea(coordinates, geo, poi).raised THEN <<>>
            ELSE <<Call("venue", venue.kind)>>)

\* an error indicator read as a reply without text
LlmOutcome_Degrade(reply) ==
    IF reply.kind = "exception" THEN [raised |-> "APIError", content |-> NoneText]
    ELSE IF reply.kind = "error" THEN [raised |-> "", content |-> NoneText]
    ELSE [raised |-> "", content |-> reply.content]

\* lines 65-116: what the workflow makes of the LLM client's reply.  The
\* client raised, the reply carries an error indicator (RuntimeError, line
\* 112), or response_content is the first choice's text, None without
\* choices
LlmOutcome(reply) ==
    IF reply.kind = "exception" THEN [raised |-> "APIError", content |-> NoneText]
    ELSE IF reply.kind = "error" THEN [raised |-> "RuntimeError", content |-> NoneText]
    ELSE [raised |-> "", content |-> reply.content]

\* get_restaurant_recommendations_service as a whole, lines 456-566, given
\* the two locality resolutions, the venue provider's reply and the LLM
\* client's reply
RecommendationsService(area1, venue, reply, area2) ==
    LET outcome == LlmOutcome(reply)
    IN  IF outcome.raised # "" THEN Raised(outcome.raised)
        ELSE IF area2.raised THEN Raised("RuntimeError")
        ELSE AssembleResponse(FetchRestaurantsFromGofood(area1, venue),
                              outcome.content, area2.service_area)

NoHttp == [status |-> 0, code |-> "", details |-> ""]
\* the route returned its response
HttpOk == [status |-> 200, code |-> "", details |-> ""]

\* ErrorHandlers.handle_invalid_request: HTTP 400, code INVALID_REQUEST
HandleInvalidRequest(e) == [status |-> 400, code |-> "INVALID_REQUEST", details |-> e]

\* json.dumps: the text that encodes a value, not the value
JsonDumps(value) == [json |-> value]

\* f"{latitude}, {longitude}"
FormatLocation(coordinates) ==
    [text |-> <<coordinates.latitude, ", ", coordinates.longitude>>]

\* the projection in reverse order
SimplifiedRecommendations_Reversed(recommendations) ==
    IF recommendations = <<>> THEN <<>>
    ELSE [i \in 1..Len(recommendations) |->
            LET r == recommendations[Len(recommendations) + 1 - i]
            IN  [id |-> r.id, name |-> r.name, rating |-> r.rating,
                 cuisineTypes |-> r.cuisineTypes]]

\* repositories.py lines 36-41
SimplifiedRecommendations(recommendations) ==
    IF recommendations = <<>> THEN <<>>
    ELSE [i \in 1..Len(recommendations) |->
            [id |-> recommendations[i].id, name |-> recommendations[i].name,
             rating |-> recommendations[i].rating,
             cuisineTypes |-> recommendations[i].cuisineTypes]]

\* repositories.py lines 44-51: the RestaurantRecommendation entity
DbRecommendation(sid, location, recommendations, match_score) ==
    [session_id |-> sid, location |-> location,
     recommendations |-> JsonDumps(SimplifiedRecommendations(recommendations)),
     match_score |-> match_score]

\* an insert that replaces the table's rows
SaveRecommendation_Overwrite(table, sid, location, recommendations, match_score, commit) ==
    IF commit = "ok"
    THEN [raised |-> "",
          table |-> <<DbRecommendation(sid, location, recommendations, match_score)>>]
    ELSE [raised |-> "SQLAlchemyError", table |-> table]

\* RestaurantRepository.save_recommendation, lines 12-57: add and commit;
\* a commit that fails raises and leaves no row
SaveRecommendation(table, sid, location, recommendations, match_score, commit) ==
    IF commit = "ok"
    THEN [raised |-> "",
          table |-> Append(table,
                           DbRecommendation(sid, location, recommendations, match_score))]
    ELSE [raised |-> "SQLAlchemyError", table |-> table]

CommitReplies == {"ok", "error"}

\* routes/restaurants.py lines 38-74 as a whole: the service, the save,
\* the response; every exception becomes handle_invalid_request
GetRestaurantRecommendations(table, sid, coordinates, result, commit) ==
    IF result.raised # ""
    THEN [http |-> HandleInvalidRequest(result.raised), response |-> NoResponse,
          error |-> result.raised, table |-> table]
    ELSE LET saved == SaveRecommendation(table, sid, FormatLocation(coordinates),
                                         result.response.restaurants,
                                         result.response.matchScore, commit)
         IN  IF saved.raised # ""
             THEN [http |-> HandleInvalidRequest(saved.raised), response |-> NoResponse,
                   error |-> saved.raised, table |-> table]
             ELSE [http |-> HttpOk, response |-> result.response, error |-> "",
                   table |-> saved.table]

---------------------------------------------------------------------------
(* Inputs of a recommendation request.                                     *)

MaxSel == 2
MaxCand == 2

LimitInputs == {NoInt, Int1(0), Int1(1), Int1(2)}

SvcCoordinates == Coord(0, 0)
SvcGeoReplies == {GeoFail, [ok |-> TRUE, address |-> Address("Denpasar", "Bali")]}
SvcPoiReplies ==
    {PoiError,
     PoiList(<<Located(0, 0, Str("Jawa"), Str("Kuta"))>>),
     PoiList(<<Located(0, 0, Absent, Absent)>>)}

BaseOutlets ==
    {Outlet("r1", TRUE, "Warung A", <<"Padang">>, Int1(1), 45),
     Outlet("r2", TRUE, "Warung B", <<>>, Int1(0), 40),
     Outlet("r1", TRUE, "Warung C", <<"Sate", "Bakso">>, Int1(4), 38),
     Outlet("r3", FALSE, "", <<>>, Int1(2), 30)}
LevelOutlets ==
    {Outlet("r2", TRUE, "Warung D", <<"Bakso">>, l, 41) :
        l \in {NoInt, Int1(-1), Int1(2), Int1(3), Int1(5)}}

VenueOk(outlets) == [kind |-> "ok", outlets |-> outlets]
\* the venue provider could not be reached, did not answer in time, or
\* answered with a status other than 200, with or without a body
VenueReplies ==
    {[kind |-> k, outlets |-> <<>>] : k \in {"neterr", "timeout", "status"}}
    \cup {[kind |-> "status",
           outlets |-> <<Outlet("r1", TRUE, "Warung A", <<"Padang">>, Int1(1), 45)>>]}
    \cup {VenueOk(l) : l \in UNION {[1..n -> BaseOutlets] : n \in 0..MaxCand}}
    \cup {VenueOk(<<o>>) : o \in LevelOutlets}

SelIds == {"r1", "r2", "rX"}
SelLists == UNION {[1..m -> {Entry(id, "fits") : id \in SelIds}] : m \in 0..MaxSel}
Scores ==
    {Num(n) : n \in {-2, 0, 9, 10, 15}} \cup {StrScore, NullScore}

Payloads ==
    {JObj(TRUE, sel, TRUE, Num(9)) : sel \in SelLists}
    \cup {JObj(TRUE, <<Entry("r1", "fits"), Entry("r2", "fits")>>, TRUE, ms) : ms \in Scores}
    \cup {JObj(TRUE, <<Entry("r1", "fits"), Entry("r2", "fits")>>, FALSE, NullScore),
          JObj(FALSE, <<>>, TRUE, Num(9)), EmptyObj}

\* a reply that is one fenced json block selecting r1 with match_score 0.9
ScenarioAText ==
    Text(<<Tok("FO"), Tok("WS"),
           TokJ(JObj(TRUE, <<Entry("r1", "fits")>>, TRUE, Num(9))),
           Tok("WS"), Tok("FC")>>)

SvcTexts ==
    {Text(<<TokJ(d)>>) : d \in Payloads}
    \cup {ScenarioAText}
    \cup {Text(<<Tok("PR"), Tok("WS"), Tok("FO"), Tok("WS"), TokJ(d), Tok("WS"),
                 Tok("FC")>>) : d \in Payloads}
    \cup {Text(<<Tok("FO"), Tok("PR"), Tok("FC"), TokJ(d)>>) : d \in Payloads}
    \cup {Text(<<>>), Text(<<Tok("PR")>>), Text(<<Tok("LB"), Tok("PR")>>),
          Text(<<TokArr>>)}

\* the LLM client raised, the reply carries an error, the reply has no
\* choices, or the reply has a text
LlmReplies ==
    {[kind |-> k, content |-> NoneText] : k \in {"exception", "error", "nochoices"}}
    \cup {[kind |-> "content", content |-> t] : t \in SvcTexts}

NoRequest == [coordinates |-> Coord(0, 0), limit |-> NoInt]

SvcIdle ==
    /\ pc = "idle"
    /\ request = NoRequest
    /\ limit = 0
    /\ fetch_area = AreaRaise
    /\ restaurants_data = <<>>
    /\ analysis_response = NoneText
    /\ service_area = ""
    /\ response = NoResponse
    /\ error = ""
    /\ calls = <<>>
    /\ session_id = 0
    /\ db = <<>>
    /\ http = NoHttp

---------------------------------------------------------------------------
(* Idle values of the variables of SpecFetch, SpecGeocode and SpecPair.    *)

NoFetchIn == [area |-> AreaRaise, venue |-> [kind |-> "neterr", outlets |-> <<>>]]
FetchNotCalled == [called |-> FALSE, data |-> <<>>]
FetchIdle == fetch_in = NoFetchIn /\ fetch_out = FetchNotCalled

NoGeocodeIn == [address |-> <<>>, reply |-> "none"]
GeocodeNotCalled ==
    [called |-> "", raised |-> "", message |-> "", formattedAddress |-> <<>>,
     provider_calls |-> 0]
GeocodeIdle == geocode_in = NoGeocodeIn /\ geocode_out = GeocodeNotCalled

PairIdle == handlers = <<>>

---------------------------------------------------------------------------
(* SpecParse: the extractor applied to every text of at most MaxLen tokens *)
(* and to a few longer replies of the kind models produce.                 *)

MaxLen == 4

SamplePayload == JObj(TRUE, <<Entry("r1", "e1")>>, TRUE, Num(9))

Alphabet ==
    {Tok("FO"), Tok("FC"), Tok("LB"), Tok("RB"), Tok("BX"), Tok("WS"),
     Tok("PR"), TokM, TokJ(SamplePayload)}

SampleTexts ==
    { <<Tok("PR"), Tok("WS"), Tok("FO"), Tok("WS"), TokJ(SamplePayload),
        Tok("WS"), Tok("FC"), Tok("WS"), Tok("PR")>>,
      <<Tok("FO"), Tok("PR"), Tok("FC"), Tok("PR"), Tok("FO"),
        TokJ(SamplePayload), Tok("FC")>>,
      <<Tok("BX"), Tok("LB"), Tok("FO"), TokJ(SamplePayload), Tok("FC"),
        Tok("RB")>>,
      <<Tok("BX"), TokJ(SamplePayload)>>,
      <<Tok("FO"), Tok("PR"), Tok("BX"), Tok("LB"), Tok("FO"),
        TokJ(SamplePayload), Tok("FC"), Tok("RB")>>,
      <<TokArr>> }

AllTexts ==
    {NoneText}
    \cup {Text(s) : s \in UNION {[1..n -> Alphabet] : n \in 0..MaxLen}}
    \cup {Text(s) : s \in SampleTexts}

NotCalled == [called |-> FALSE, raised |-> FALSE, val |-> NoJson]

InitParse ==
    /\ response_content \in AllTexts
    /\ parsed = NotCalled
    /\ area_in = NoAreaIn
    /\ area_out = AreaNotCalled
    /\ SvcIdle
    /\ FetchIdle
    /\ GeocodeIdle
    /\ PairIdle

ParseCall ==
    /\ ~parsed.called
    /\ LET r == ParseLlmResponseToJson(response_content)
       IN  parsed' = [called |-> TRUE, raised |-> r.raised, val |-> r.val]
    /\ UNCHANGED <<response_content, area_vars, svc_vars, fetch_vars, geocode_vars,
                   pair_vars>>

NextParse == ParseCall

SpecParse == InitParse /\ [][NextParse]_vars

---------------------------------------------------------------------------
(* SpecArea: get_nearest_service_area applied to every coordinate, every   *)
(* reverse-geocoder reply and every place-search reply of at most MaxLoc   *)
(* locations.                                                              *)

InitArea ==
    /\ area_in \in [coordinates : CoordinateInputs, geo : GeoReplies, poi : PoiReplies]
    /\ area_out = AreaNotCalled
    /\ response_content = NoneText
    /\ parsed = NotCalled
    /\ SvcIdle
    /\ FetchIdle
    /\ GeocodeIdle
    /\ PairIdle

AreaCall ==
    /\ ~area_out.called
    /\ LET r == GetNearestServiceArea(area_in.coordinates, area_in.geo, area_in.poi)
       IN  area_out' = [called |-> TRUE, raised |-> r.raised,
                        service_area |-> r.service_area, locality |-> r.locality]
    /\ UNCHANGED <<area_in, parse_vars, svc_vars, fetch_vars, geocode_vars, pair_vars>>

NextArea == AreaCall

SpecArea == InitArea /\ [][NextArea]_vars

---------------------------------------------------------------------------
(* Spec: one recommendation request through                                *)
(* get_restaurant_recommendations_service, a step per awaited call.        *)

Init ==
    /\ pc = "start"
    /\ request \in [coordinates : {SvcCoordinates}, limit : LimitInputs]
    /\ limit = 0
    /\ fetch_area = AreaRaise
    /\ restaurants_data = <<>>
    /\ analysis_response = NoneText
    /\ service_area = ""
    /\ response = NoResponse
    /\ error = ""
    /\ calls = <<>>
    /\ session_id = 0
    /\ db = <<>>
    /\ http = NoHttp
    /\ response_content = NoneText
    /\ parsed = NotCalled
    /\ area_in = NoAreaIn
    /\ area_out = AreaNotCalled
    /\ FetchIdle
    /\ GeocodeIdle
    /\ PairIdle

\* lines 451-472: the session id and the defaults, then the workflow is
\* entered
StartRequest ==
    /\ pc = "start"
    /\ session_id' = session_id + 1
    /\ limit' = EffectiveLimit(request.limit)
    /\ pc' = "fetch"
    /\ UNCHANGED <<request, fetch_area, restaurants_data, analysis_response,
                   service_area, response, error, calls, db, http,
                   parse_vars, area_vars,
                   fetch_vars, geocode_vars, pair_vars>>

\* line 54: await fetch_restaurants_from_gofood(coordinates)
FetchRestaurants ==
    /\ pc = "fetch"
    /\ \E geo \in SvcGeoReplies, poi \in SvcPoiReplies, venue \in VenueReplies :
          LET area == GetNearestServiceArea(request.coordinates, geo, poi)
          IN  /\ fetch_area' = area
              /\ restaurants_data' = FetchRestaurantsFromGofood(area, venue)
              /\ calls' = calls \o FetchCalls(request.coordinates, geo, poi, venue)
    /\ pc' = "llm"
    /\ UNCHANGED <<request, limit, analysis_response, service_area, response, error,
                   session_id, db, http, parse_vars, area_vars,
                   fetch_vars, geocode_vars, pair_vars>>

\* lines 59-134: the one LLM call and what is made of its reply; an
\* exception leaves the service and the route answers it (lines 69-74)
LlmCall ==
    /\ pc = "llm"
    /\ \E reply \in LlmReplies :
          LET outcome == LlmOutcome(reply)
          IN  /\ calls' = Append(calls, Call("llm", reply.kind))
              /\ IF outcome.raised # ""
                 THEN /\ pc' = "failed"
                      /\ error' = outcome.raised
                      /\ http' = HandleInvalidRequest(outcome.raised)
                      /\ UNCHANGED analysis_response
                 ELSE /\ pc' = "resolve"
                      /\ analysis_response' = outcome.content
                      /\ UNCHANGED <<error, http>>
    /\ UNCHANGED <<request, limit, fetch_area, restaurants_data, service_area,
                   response, session_id, db, parse_vars, area_vars,
                   fetch_vars, geocode_vars, pair_vars>>

\* line 479: service_area, _ = await get_nearest_service_area(coordinates)
ResolveServiceArea ==
    /\ pc = "resolve"
    /\ \E geo \in SvcGeoReplies, poi \in SvcPoiReplies :
          LET area == GetNearestServiceArea(request.coordinates, geo, poi)
          IN  /\ calls' = calls \o AreaCalls(geo, poi)
              /\ IF area.raised
                 THEN /\ pc' = "failed"
                      /\ error' = "RuntimeError"
                      /\ http' = HandleInvalidRequest("RuntimeError")
                      /\ UNCHANGED service_area
                 ELSE /\ pc' = "assemble"
                      /\ service_area' = area.service_area
                      /\ UNCHANGED <<error, http>>
    /\ UNCHANGED <<request, limit, fetch_area, restaurants_data, analysis_response,
                   response, session_id, db, parse_vars, area_vars,
                   fetch_vars, geocode_vars, pair_vars>>

\* lines 482-566: extraction and assembly; the service returns its response
\* to the route or raises
Assemble ==
    /\ pc = "assemble"
    /\ LET r == AssembleResponse(restaurants_data, analysis_response, service_area)
       IN  /\ pc' = IF r.raised = "" THEN "save" ELSE "failed"
           /\ error' = r.raised
           /\ response' = r.response
           /\ http' = IF r.raised = "" THEN http ELSE HandleInvalidRequest(r.raised)
    /\ UNCHANGED <<request, limit, fetch_area, restaurants_data, analysis_response,
                   service_area, calls, session_id, db, parse_vars, area_vars,
                   fetch_vars, geocode_vars, pair_vars>>

\* routes/restaurants.py lines 54-67: the record is saved and the response
\* returned; a failed commit is answered like every other exception
Save ==
    /\ pc = "save"
    /\ \E commit \in CommitReplies :
          LET saved == SaveRecommendation(db, session_id,
                                         FormatLocation(request.coordinates),
                                         response.restaurants, response.matchScore,
                                         commit)
          IN  /\ calls' = Append(calls, Call("db", commit))
              /\ db' = saved.table
              /\ error' = saved.raised
              /\ IF saved.raised = ""
                 THEN /\ pc' = "done"
                      /\ http' = HttpOk
                      /\ UNCHANGED response
                 ELSE /\ pc' = "failed"
                      /\ http' = HandleInvalidRequest(saved.raised)
                      /\ response' = NoResponse
    /\ UNCHANGED <<request, limit, fetch_area, restaurants_data, analysis_response,
                   service_area, session_id, parse_vars, area_vars,
                   fetch_vars, geocode_vars, pair_vars>>

Next ==
    \/ StartRequest
    \/ FetchRestaurants
    \/ LlmCall
    \/ ResolveServiceArea
    \/ Assemble
    \/ Save

Spec == Init /\ [][Next]_vars

---------------------------------------------------------------------------
(* SpecLog: a sequence of at most MaxRequests recommendation requests to   *)
(* the route, one after the other, a step per request handled.             *)

MaxRequests == 3

LogGeoReplies == SvcGeoReplies
LogPoiReplies == {PoiError}
LogVenueReplies ==
    {[kind |-> "neterr", outlets |-> <<>>],
     VenueOk(<<Outlet("r1", TRUE, "Warung A", <<"Padang">>, Int1(1), 45)>>),
     VenueOk(<<Outlet("r1", TRUE, "Warung A", <<"Padang">>, Int1(1), 45),
               Outlet("r2", TRUE, "Warung B", <<>>, Int1(0), 40)>>)}
LogLlmReplies ==
    {[kind |-> "error", content |-> NoneText],
     [kind |-> "content", content |-> Text(<<Tok("PR")>>)],
     [kind |-> "content",
      content |-> Text(<<TokJ(JObj(TRUE, <<Entry("r1", "fits")>>, TRUE, Num(9)))>>)],
     [kind |-> "content",
      content |-> Text(<<TokJ(JObj(TRUE, <<Entry("r2", "fits"), Entry("r1", "fits")>>,
                                   TRUE, Num(8)))>>)]}

InitLog ==
    /\ SvcIdle
    /\ response_content = NoneText
    /\ parsed = NotCalled
    /\ area_in = NoAreaIn
    /\ area_out = AreaNotCalled
    /\ FetchIdle
    /\ GeocodeIdle
    /\ PairIdle

\* routes/restaurants.py lines 25-74: one request from its arrival to the
\* route's answer
ServeRequest ==
    /\ pc = "idle"
    /\ session_id < MaxRequests
    /\ \E geo1 \in LogGeoReplies, poi1 \in LogPoiReplies, venue \in LogVenueReplies,
          reply \in LogLlmReplies, geo2 \in LogGeoReplies, poi2 \in LogPoiReplies,
          commit \in CommitReplies :
          LET result == RecommendationsService(
                            GetNearestServiceArea(SvcCoordinates, geo1, poi1), venue,
                            reply,
                            GetNearestServiceArea(SvcCoordinates, geo2, poi2))
              answer == GetRestaurantRecommendations(db, session_id + 1,
                                                     SvcCoordinates, result, commit)
          IN  /\ session_id' = session_id + 1
              /\ db' = answer.table
              /\ http' = answer.http
              /\ response' = answer.response
              /\ error' = answer.error
    /\ UNCHANGED <<pc, request, limit, fetch_area, restaurants_data,
                   analysis_response, service_area, calls, parse_vars, area_vars,
                   fetch_vars, geocode_vars, pair_vars>>

NextLog == ServeRequest

SpecLog == InitLog /\ [][NextLog]_vars

---------------------------------------------------------------------------
(* Properties of the extractor, checked under SpecParse.                   *)

\* what each rule of the fallback ladder yields on a text, taken alone
RuleWhole(toks) == JsonLoads(toks)
RuleFenced(toks) ==
    LET f == FencedSearch(toks) IN IF f.found THEN JsonLoads(f.group) ELSE Failed
RuleBrace(toks) ==
    LET b == BraceSearch(toks) IN IF b.found THEN JsonLoads(b.group) ELSE Failed
RuleBoxed(toks) ==
    LET x == BoxedSearch(toks) IN IF x.found THEN RuleFenced(x.group) ELSE Failed

NothingParses(toks) ==
    /\ ~RuleWhole(toks).ok
    /\ ~RuleFenced(toks).ok
    /\ ~RuleBrace(toks).ok
    /\ ~RuleBoxed(toks).ok

\* the data of the first rule, in ladder order, whose region parses
LadderData(toks) ==
    IF RuleWhole(toks).ok THEN RuleWhole(toks).val
    ELSE IF RuleFenced(toks).ok THEN RuleFenced(toks).val
    ELSE IF RuleBrace(toks).ok THEN RuleBrace(toks).val
    ELSE IF RuleBoxed(toks).ok THEN RuleBoxed(toks).val
    ELSE DefaultAnalysis

\* C2: the result is the data of the first rule (whole text, fenced block,
\* brace region, boxed wrapper) whose region parses; a region that is found
\* but does not parse does not end the ladder.
C2_FirstParsingRuleWins ==
    parsed.called =>
        /\ ~parsed.raised
        /\ parsed.val = LadderData(response_content.toks)

\* the fenced json blocks of a text: an opener, a closing fence after it,
\* no fence in between
ValidFencedData(toks) ==
    {JsonLoads(SubSeq(toks, i + 1, j - 1)).val :
        <<i, j>> \in {ij \in (1..Len(toks)) \X (1..Len(toks)) :
                        /\ ij[1] < ij[2]
                        /\ toks[ij[1]].k = "FO"
                        /\ toks[ij[2]].k = "FC"
                        /\ \A m \in (ij[1] + 1)..(ij[2] - 1) : ~IsFence(toks[m])
                        /\ JsonLoads(SubSeq(toks, ij[1] + 1, ij[2] - 1)).ok}}

C4_NeverRaisesDefaultOnGarbage ==
    parsed.called =>
        /\ ~parsed.raised
        /\ (~response_content.present \/ NothingParses(response_content.toks))
              => parsed.val = DefaultAnalysis

\* a text with a fenced block of prose and an unbalanced brace was given
\* the default
C4_Witness_GarbageGivesDefault ==
    /\ parsed.called
    /\ response_content.present
    /\ \E i \in 1..Len(response_content.toks) : response_content.toks[i].k = "LB"
    /\ FencedSearch(response_content.toks).found
    /\ NothingParses(response_content.toks)
    /\ parsed.val = DefaultAnalysis

---------------------------------------------------------------------------
(* Properties of the locality resolver, checked under SpecArea.            *)

\* C8: get_nearest_service_area returns a pair whose service area and
\* locality are both non-empty, or raises; no part of a returned pair is
\* the empty string.
C8_NeverPartiallyEmptyPair ==
    (area_out.called /\ ~area_out.raised) =>
        (area_out.service_area # "" /\ area_out.locality # "")

---------------------------------------------------------------------------
(* Properties of the request handler, checked under Spec.                  *)

Finished == pc \in {"done", "failed"}
\* the request got a text from the LLM and a service area for its URLs
ReachedAssembly == Finished /\ error \notin {"APIError", "RuntimeError"}

\* the extraction of the request's LLM text
Analysis == ParseLlmResponseToJson(analysis_response).val
Selections == IF Analysis.t = "obj" /\ Analysis.hasSel THEN Analysis.sel ELSE <<>>

\* C1: when the venue fetch yields no candidate the request completes
\* successfully with restaurants == [] and a match score, whatever the LLM
\* text; no exception propagates.
C1_EmptyFetchSucceeds ==
    (ReachedAssembly /\ restaurants_data = <<>>) =>
        /\ pc = "done"
        /\ response.restaurants = <<>>
        /\ response.matchScore.k = "num"

\* the venue fields of a recommendation are those of a candidate of its id
FromCandidate(r, c) ==
    /\ r.id = c.id
    /\ r.name = c.name
    /\ r.rating = c.ratings
    /\ r.cuisineTypes = c.cuisineTypes

\* C5: every recommendation has the id of a fetched candidate and that
\* candidate's venue fields; a selection whose id matches no candidate gives
\* no recommendation, so that selections none of which matches give
\* restaurants == [].
C5_RecommendationsComeFromCandidates ==
    pc = "done" =>
        /\ \A i \in 1..Len(response.restaurants) :
              \E j \in 1..Len(restaurants_data) :
                  FromCandidate(response.restaurants[i], restaurants_data[j])
        /\ Len(response.restaurants)
              = Cardinality({n \in 1..Len(Selections) :
                               \E j \in 1..Len(restaurants_data) :
                                   restaurants_data[j].id = Selections[n].id})

\* of two selections the one naming an unknown id was dropped
C5_Witness_UnknownIdDropped ==
    /\ pc = "done"
    /\ Len(Selections) = 2
    /\ Selections[1].id = "rX"
    /\ Selections[2].id = "r1"
    /\ Len(response.restaurants) = 1
    /\ response.restaurants[1].id = "r1"

\* the selections name pairwise different ids
DistinctSelections ==
    \A m, n \in 1..Len(Selections) : m # n => Selections[m].id # Selections[n].id

\* C6: the response holds at most limit restaurants (the request's limit,
\* 5 when omitted), also when the selections match more candidates than
\* limit.  Stated for selections of pairwise different ids, the case the
\* claim names.
C6_AtMostLimitRestaurants ==
    (pc = "done" /\ DistinctSelections) => Len(response.restaurants) <= limit

\* the symbol the table gives a level
SymbolOf(n) ==
    IF n = 1 THEN "$" ELSE IF n = 3 THEN "$$$" ELSE IF n = 4 THEN "$$$$" ELSE "$$"

\* C7: the price-level mapping is total: 1, 2, 3, 4 give "$", "$$", "$$$",
\* "$$$$", every other integer and a missing level give "$$"; never the
\* empty string.
C7_PriceRangeTotal ==
    /\ PriceRange(NoInt) = "$$"
    /\ pc = "done" =>
          \A i \in 1..Len(response.restaurants) :
              /\ response.restaurants[i].priceRange # ""
              /\ \E j \in 1..Len(restaurants_data) :
                    /\ FromCandidate(response.restaurants[i], restaurants_data[j])
                    /\ response.restaurants[i].priceRange
                          = SymbolOf(restaurants_data[j].priceLevel.n)

\* a candidate of level 5 was recommended with "$$"
C7_Witness_OutOfTableLevel ==
    /\ pc = "done"
    /\ Len(response.restaurants) = 1
    /\ Len(restaurants_data) = 1
    /\ restaurants_data[1].priceLevel.n = 5
    /\ response.restaurants[1].priceRange = "$$"

\* the extraction gave no usable top-level score: no match_score key, or
\* no rule of the ladder parsed and the default extraction stands
NoUsableScore ==
    \/ ~analysis_response.present
    \/ NothingParses(analysis_response.toks)
    \/ (Analysis.t = "obj" /\ ~Analysis.hasMs)

\* C9: when the extraction yields no usable top-level score the response
\* matchScore is the default 0.7, not 0.
C9_DefaultScoreWhenNoneExtracted ==
    (pc = "done" /\ NoUsableScore) => response.matchScore = Num(DefaultMatchScore)

\* C10: the matchScore of a successful response is a number in [0, 1].
C10_MatchScoreInUnitInterval ==
    pc = "done" =>
        /\ response.matchScore.k = "num"
        /\ response.matchScore.n >= 0
        /\ response.matchScore.n <= 10

\* the request's LLM call ended this way
LlmReplied(kind) == \E i \in 1..Len(calls) : calls[i] = Call("llm", kind)
LlmCalled == \E i \in 1..Len(calls) : calls[i].to = "llm"

\* C11: a request with a non-empty candidate list whose LLM call delivered a
\* text (prose without JSON, or JSON that is not the contracted object) ends
\* with a successful response; no exception propagates.  Failures of the
\* second locality resolution and of the database are set aside.
C11_DeliveredTextNeverFails ==
    (/\ Finished
     /\ restaurants_data # <<>>
     /\ LlmReplied("content")
     /\ (NothingParses(analysis_response.toks) \/ Analysis.t # "obj")
     /\ error \notin {"RuntimeError", "SQLAlchemyError"})
        => (pc = "done" /\ http = HttpOk)

\* C12: when the LLM response carries an error indicator the request fails
\* with the exception of line 112: no response is returned as a success,
\* nothing runs after the LLM call (no extraction, no assembly, no locality
\* resolution for it, no database call) and no record is persisted.
C12_ErrorIndicatorIsFatal ==
    LlmReplied("error") =>
        /\ pc = "failed"
        /\ error = "RuntimeError"
        /\ http.status # 200
        /\ response = NoResponse
        /\ calls[Len(calls)] = Call("llm", "error")
        /\ service_area = ""
        /\ db = <<>>

\* candidates were fetched, the LLM reply carried an error indicator and the
\* request failed
C12_Witness_ErrorAfterCandidates ==
    /\ LlmReplied("error")
    /\ Len(restaurants_data) = 2
    /\ pc = "failed"
    /\ http.status = 400

\* the LLM call yielded no text: no choices, or an empty content
NoPayload ==
    \/ LlmReplied("nochoices")
    \/ (LlmReplied("content") /\ analysis_response = Text(<<>>))

\* C13: a request whose LLM call yielded no text payload fails; it never
\* ends as a successful response made from the extractor's default.
C13_NoPayloadNeverSucceeds ==
    NoPayload => pc # "done"

\* the request failed in the LLM call or in locality resolution
TransportOrLocalityFailure ==
    /\ pc = "failed"
    /\ error \in {"APIError", "RuntimeError"}

\* C14: an LLM transport failure or a locality-resolution failure is answered
\* with a server-class status (5xx) and a code other than the one of invalid
\* request parameters.
C14_ServerClassFailure ==
    TransportOrLocalityFailure =>
        /\ http.status >= 500
        /\ http.code # HandleInvalidRequest("").code

\* the venue fetch of the request has returned
FetchDone == pc \notin {"start", "fetch"}
\* the venue provider was called and did not answer 200
VenueFailed ==
    \E i \in 1..Len(calls) : calls[i].to = "venue" /\ calls[i].outcome # "ok"

\* C15: fetch_restaurants_from_gofood never raises: after a non-200 status, a
\* network failure or a timeout of the venue provider the candidate list is
\* empty, and the pipeline goes on to the LLM call.
C15_FetchFailureGivesEmptyList ==
    FetchDone =>
        /\ VenueFailed => restaurants_data = <<>>
        /\ pc = "llm" \/ LlmCalled
        /\ pc = "llm" => error = ""

\* the venue provider answered with a status other than 200, the candidate
\* list is empty and the LLM was called and replied
C15_Witness_StatusWithBody ==
    /\ \E i \in 1..Len(calls) : calls[i] = Call("venue", "status")
    /\ restaurants_data = <<>>
    /\ LlmReplied("content")

\* reverse geocoding failed in the locality resolution of the venue fetch
GeocodeFailedInFetch == Len(calls) >= 1 /\ calls[1] = Call("geocode", "error")

\* C16: when reverse geocoding fails in the locality resolution of the venue
\* fetch, the request fails with the service-area error and the LLM is not
\* called.
C16_UnresolvedAreaStopsRequest ==
    GeocodeFailedInFetch => ~LlmCalled

\* C20: locality resolution, with its reverse-geocoding call, happens only
\* before the venue fetch, never after the LLM call, and the LLM is called
\* at most once.
C20_NoResolutionAfterLlm ==
    /\ \A i, j \in 1..Len(calls) :
          (calls[i].to = "llm" /\ i < j) => calls[j].to \notin {"geocode", "places"}
    /\ Cardinality({i \in 1..Len(calls) : calls[i].to = "llm"}) <= 1

\* C19: the record persisted for a request is the projection of its
\* response: one {id, name, rating, cuisineTypes} entry per returned
\* restaurant in the same order (as JSON text), the response's matchScore and
\* the session id generated for the request.
C19_RecordIsProjectionOfResponse ==
    pc = "done" =>
        /\ Len(db) = 1
        /\ db[1].session_id = session_id
        /\ db[1].match_score = response.matchScore
        /\ Len(db[1].recommendations.json) = Len(response.restaurants)
        /\ \A i \in 1..Len(response.restaurants) :
              db[1].recommendations.json[i]
                  = [id |-> response.restaurants[i].id,
                     name |-> response.restaurants[i].name,
                     rating |-> response.restaurants[i].rating,
                     cuisineTypes |-> response.restaurants[i].cuisineTypes]

\* a response with r2 before r1 was persisted
C19_Witness_TwoRecommendations ==
    /\ pc = "done"
    /\ Len(response.restaurants) = 2
    /\ response.restaurants[1].id = "r2"
    /\ response.restaurants[2].id = "r1"
    /\ response.restaurants[2].cuisineTypes = <<"Sate", "Bakso">>
    /\ Len(db) = 1

---------------------------------------------------------------------------
(* Properties of the locality resolver, checked under SpecArea (continued) *)

\* the place-search candidate the pair was read from, 0 when there is none
NearestOfInput ==
    IF area_in.geo.ok /\ area_in.poi.kind = "list"
    THEN NearestLocation(area_in.poi.locations, area_in.coordinates)
    ELSE 0

\* the pair holds the names of the nearest place-search candidate
DerivedFromNearest ==
    /\ NearestOfInput # 0
    /\ LET location == area_in.poi.locations[NearestOfInput]
       IN  /\ area_out.service_area = Lower(location.service_area_name.s)
           /\ area_out.locality \in {Lower(location.locality_name.s),
                                     Lower(location.service_area_name.s)}

\* the pair holds the reverse-geocoded state and city (or state)
DerivedFromAddress ==
    /\ area_in.geo.ok
    /\ area_in.geo.address.state # ""
    /\ area_out.service_area = Lower(area_in.geo.address.state)
    /\ area_out.locality \in {Lower(area_in.geo.address.city),
                              Lower(area_in.geo.address.state)} \ {""}

\* C17: every pair get_nearest_service_area returns is read from the nearest
\* place-search candidate or from the reverse-geocoded city/state of the
\* coordinates; never a fixed region chosen independently of the input.
C17_PairDerivedFromInput ==
    (area_out.called /\ ~area_out.raised) =>
        (DerivedFromNearest \/ DerivedFromAddress)

---------------------------------------------------------------------------
(* Properties of the persistence log, checked under SpecLog.               *)

\* C18: each request answered with a success appends exactly one record,
\* carrying its session id, to the log; a request that fails appends none;
\* no record written before is changed or removed.
C18_AppendOnlyOneRecordPerSuccess ==
    [][/\ session_id' = session_id + 1
       /\ http'.status = 200 =>
             /\ Len(db') = Len(db) + 1
             /\ SubSeq(db', 1, Len(db)) = db
             /\ db'[Len(db')].session_id = session_id'
       /\ http'.status # 200 => db' = db]_vars

\* of three requests the second failed: the log holds the records of the
\* first and the third
C18_Witness_FailureBetweenSuccesses ==
    /\ session_id = 3
    /\ Len(db) = 2
    /\ db[1].session_id = 1
    /\ db[2].session_id = 3
    /\ http = HttpOk

---------------------------------------------------------------------------
(* Properties of the request handler, checked under Spec (continued)       *)

\* the LLM replied with the fenced block selecting r1 and r1 is a candidate
ScenarioA ==
    /\ LlmReplied("content")
    /\ analysis_response = ScenarioAText
    /\ "r1" \in CandidateIds(restaurants_data)

\* C23: with a candidate of id r1, locality resolution succeeding and an LLM
\* reply that is a fenced json block selecting r1 with match_score 0.9, the
\* response holds exactly one recommendation, for r1, and matchScore 0.9;
\* the request fails only when locality resolution or the database fails.
C23_ScenarioAOneRecommendation ==
    ScenarioA =>
        /\ pc \in {"save", "done"} =>
              /\ Len(response.restaurants) = 1
              /\ response.restaurants[1].id = "r1"
              /\ response.matchScore = Num(9)
        /\ pc = "failed" => error \in {"RuntimeError", "SQLAlchemyError"}

\* scenario A answered, with r1 one of two candidates
C23_Witness_ScenarioAServed ==
    /\ ScenarioA
    /\ pc = "done"
    /\ http = HttpOk
    /\ Len(restaurants_data) = 2
    /\ restaurants_data[2].id = "r1"
    /\ Len(response.restaurants) = 1

\* the ids of the selections that name a candidate, in the LLM's order
MatchedSelectionIds ==
    LET matched == SelectSeq(Selections,
                             LAMBDA sel : sel.id \in CandidateIds(restaurants_data))
    IN  IF matched = <<>> THEN <<>>
        ELSE [i \in 1..Len(matched) |-> matched[i].id]

ResponseIds ==
    IF response.restaurants = <<>> THEN <<>>
    ELSE [i \in 1..Len(response.restaurants) |-> response.restaurants[i].id]

\* C27: the restaurants of the response appear in the order of the LLM's
\* selections: their ids are the ids of the selections that name a
\* candidate, in selection order.
C27_SelectionOrderPreserved ==
    pc = "done" => ResponseIds = MatchedSelectionIds

\* the LLM listed r2 before r1, the provider r1 (rated higher) before r2,
\* and the response has r2 first
C27_Witness_AgainstCandidateOrder ==
    /\ pc = "done"
    /\ ResponseIds = <<"r2", "r1">>
    /\ Len(restaurants_data) = 2
    /\ restaurants_data[1].id = "r1"
    /\ restaurants_data[2].id = "r2"
    /\ restaurants_data[1].ratings > restaurants_data[2].ratings

\* C29: the service area in every recommendation's URL is the service area
\* the candidate list was fetched with, also when the providers answer the
\* request's two locality resolutions differently.
C29_UrlAreaIsFetchArea ==
    pc = "done" =>
        \A i \in 1..Len(response.restaurants) :
            response.restaurants[i].gojekArea = fetch_area.service_area

\* C30: the response never holds two recommendations of the same id.
C30_NoDuplicateRecommendations ==
    pc = "done" =>
        \A i, j \in 1..Len(response.restaurants) :
            i # j => response.restaurants[i].id # response.restaurants[j].id

---------------------------------------------------------------------------
(* Properties of the extractor, checked under SpecParse (continued)        *)

\* C24: when the whole text, the fenced block and the brace region yield no
\* parseable data and the text holds a boxed wrapper whose inner content has
\* a fenced block that parses, the result is that block's data.
C24_BoxedRuleApplied ==
    (/\ parsed.called
     /\ response_content.present
     /\ ~RuleWhole(response_content.toks).ok
     /\ ~RuleFenced(response_content.toks).ok
     /\ ~RuleBrace(response_content.toks).ok
     /\ RuleBoxed(response_content.toks).ok)
        => parsed.val = RuleBoxed(response_content.toks).val

---------------------------------------------------------------------------
(* Properties of the locality resolver, checked under SpecArea (continued) *)

\* the place-search candidates that have both coordinates
LocatedIdx ==
    IF area_in.geo.ok /\ area_in.poi.kind = "list"
    THEN {n \in 1..Len(area_in.poi.locations) :
            area_in.poi.locations[n].hasLat /\ area_in.poi.locations[n].hasLng}
    ELSE {}

DistanceTo(n) ==
    CalculateDistance(area_in.coordinates.latitude, area_in.coordinates.longitude,
                      area_in.poi.locations[n].latitude,
                      area_in.poi.locations[n].longitude)

\* the first candidate, among those with both coordinates, of least distance
FirstNearestIdx ==
    CHOOSE n \in LocatedIdx :
        /\ \A m \in LocatedIdx : DistanceTo(n) <= DistanceTo(m)
        /\ \A m \in LocatedIdx : (m < n) => DistanceTo(m) > DistanceTo(n)

\* C25: when place search returns a candidate with both coordinates, the
\* call returns the (lower-cased) service area and locality of the first
\* candidate of least distance among those with both coordinates, the
\* locality being the service area when the candidate has none.
C25_NearestCandidateReturned ==
    (area_out.called /\ LocatedIdx # {}) =>
        /\ ~area_out.raised
        /\ LET location == area_in.poi.locations[FirstNearestIdx]
           IN  /\ area_out.service_area = Lower(location.service_area_name.s)
               /\ area_out.locality
                     = (IF Lower(location.locality_name.s) = ""
                        THEN Lower(location.service_area_name.s)
                        ELSE Lower(location.locality_name.s))

\* place search gave no candidate to read a pair from
NoUsableCandidate == area_in.poi.kind # "list" \/ LocatedIdx = {}

\* C26: when reverse geocoding succeeds the call returns; when place search
\* failed in any way or gave no usable candidate the pair is the fallback
\* from the reverse-geocoded state and city.  Only a reverse-geocoding
\* failure makes the call raise.
C26_OnlyGeocodingFailureRaises ==
    (area_out.called /\ area_in.geo.ok) =>
        /\ ~area_out.raised
        /\ NoUsableCandidate =>
              /\ area_out.service_area = Fallback(area_in.geo.address).service_area
              /\ area_out.locality = Fallback(area_in.geo.address).locality


---------------------------------------------------------------------------
(* SpecFetch: fetch_restaurants_from_gofood applied to venue replies that  *)
(* mix well-formed outlets, outlets without a core and outlets one of      *)
(* whose nested objects is null                                            *)

FetchAreas == {AreaOk("bali", "denpasar"), AreaRaise}
FetchOutletPool ==
    BaseOutlets \cup {NullNestedOutlet("r4", "Warung E"), NullNestedOutlet("r5", "")}
FetchVenueReplies ==
    {[kind |-> k, outlets |-> <<>>] : k \in {"neterr", "timeout", "status"}}
    \cup {VenueOk(l) : l \in UNION {[1..n -> FetchOutletPool] : n \in 0..MaxCand}}

InitFetch ==
    /\ fetch_in \in [area : FetchAreas, venue : FetchVenueReplies]
    /\ fetch_out = FetchNotCalled
    /\ response_content = <<>>
    /\ parsed = NotCalled
    /\ area_in = NoAreaIn
    /\ area_out = AreaNotCalled
    /\ SvcIdle
    /\ GeocodeIdle
    /\ PairIdle

\* lines 137-215: one call of the fetch
FetchCall ==
    /\ ~fetch_out.called
    /\ fetch_out' = [called |-> TRUE,
                     data |-> FetchRestaurantsFromGofood(fetch_in.area, fetch_in.venue)]
    /\ UNCHANGED <<fetch_in, parse_vars, area_vars, svc_vars, geocode_vars, pair_vars>>

NextFetch == FetchCall

SpecFetch == InitFetch /\ [][NextFetch]_vars

WellFormed(outlet) == outlet.hasCore /\ ~outlet.nullNested
FetchServed ==
    fetch_out.called /\ ~fetch_in.area.raised /\ fetch_in.venue.kind = "ok"

\* C28: a successful venue reply that mixes well-formed and malformed
\* records yields exactly the well-formed records, processed, in provider
\* order; a malformed record never costs the batch.
C28_MalformedRecordsSkipped ==
    FetchServed =>
        fetch_out.data = ProcessOutlets(SelectSeq(fetch_in.venue.outlets, WellFormed))


---------------------------------------------------------------------------
(* SpecGeocode: an address, a sequence of words and whitespace characters, *)
(* geocoded by geocode_address_service and by the earlier mock route       *)

MaxAddr == 3
Whitespace == {" ", "\t"}
AddressTokens == Whitespace \cup {"Jakarta", "singapore", "Ubud"}
Addresses == UNION {[1..n -> AddressTokens] : n \in 0..MaxAddr}
\* str.strip() leaves nothing
IsBlank(address) == \A i \in 1..Len(address) : address[i] \in Whitespace
\* what geocoder.geocode does when it is called
GeocoderReplies == {"location", "none", "timed_out", "unavailable", "service_error", "other"}

LowerWord(word) == IF word = "Jakarta" THEN "jakarta" ELSE word
Contains(address, word) == \E i \in 1..Len(address) : LowerWord(address[i]) = word

GeocodeOk(by, formattedAddress, n) ==
    [called |-> by, raised |-> "", message |-> "", formattedAddress |-> formattedAddress,
     provider_calls |-> n]
GeocodeRaise(by, message, n) ==
    [called |-> by, raised |-> "ValueError", message |-> message,
     formattedAddress |-> <<>>, provider_calls |-> n]

\* location.address, the provider's own text for what it found
LocationAddress == <<"Nominatim address">>

\* services.py lines 51-74: the geocoder is called first, with the address
\* as it came; the ValueError of line 70 is raised inside the try and is
\* wrapped by the except of line 73.
GeocodeAddressService(address, reply) ==
    CASE reply = "location" -> GeocodeOk("service", LocationAddress, 1)
      [] reply = "none" -> GeocodeRaise("service", "Error geocoding address", 1)
      [] reply \in {"timed_out", "unavailable", "service_error"} ->
            GeocodeRaise("service", "Geocoding service error", 1)
      [] OTHER -> GeocodeRaise("service", "Error geocoding address", 1)

\* app/api/routes/location.py lines 16-40: the mock route tests `not
\* request.address`, which only the empty string satisfies, and calls no
\* provider.
MockGeocodeAddress(address) ==
    IF address = <<>> THEN GeocodeRaise("mock", "Address cannot be empty", 0)
    ELSE IF Contains(address, "jakarta") THEN GeocodeOk("mock", <<"Jakarta, Indonesia">>, 0)
    ELSE IF Contains(address, "singapore") THEN GeocodeOk("mock", <<"Singapore">>, 0)
    ELSE GeocodeOk("mock", address, 0)

InitGeocode ==
    /\ geocode_in \in [address : Addresses, reply : GeocoderReplies]
    /\ geocode_out = GeocodeNotCalled
    /\ response_content = <<>>
    /\ parsed = NotCalled
    /\ area_in = NoAreaIn
    /\ area_out = AreaNotCalled
    /\ SvcIdle
    /\ FetchIdle
    /\ PairIdle

GeocodeServiceCall ==
    /\ geocode_out.called = ""
    /\ geocode_out' = GeocodeAddressService(geocode_in.address, geocode_in.reply)
    /\ UNCHANGED <<geocode_in, parse_vars, area_vars, svc_vars, fetch_vars, pair_vars>>

GeocodeMockCall ==
    /\ geocode_out.called = ""
    /\ geocode_out' = MockGeocodeAddress(geocode_in.address)
    /\ UNCHANGED <<geocode_in, parse_vars, area_vars, svc_vars, fetch_vars, pair_vars>>

NextGeocode == GeocodeServiceCall \/ GeocodeMockCall

SpecGeocode == InitGeocode /\ [][NextGeocode]_vars

\* C22: geocode_address_service rejects an empty or whitespace-only address
\* with a geocoding error, and does so before the geocoding provider is
\* called.
C22_BlankAddressRejectedBeforeProvider ==
    (geocode_out.called = "service" /\ IsBlank(geocode_in.address)) =>
        (geocode_out.raised = "ValueError" /\ geocode_out.provider_calls = 0)


---------------------------------------------------------------------------
(* SpecPair: two recommendation requests handled concurrently. Each        *)
(* handler has its own locals and its own database session (get_db); the   *)
(* table is the one thing both write. The provider replies to a handler's  *)
(* calls are fixed with its request, and the handlers' steps interleave    *)
(* freely.                                                                 *)

\* the two requests in flight
Handlers == {1, 2}

PairVenueReplies ==
    {[kind |-> "neterr", outlets |-> <<>>],
     VenueOk(<<Outlet("r1", TRUE, "Warung A", <<"Padang">>, Int1(1), 45),
               Outlet("r2", TRUE, "Warung B", <<>>, Int1(0), 40)>>)}
PairLlmReplies ==
    {[kind |-> "error", content |-> NoneText],
     [kind |-> "content",
      content |-> Text(<<TokJ(JObj(TRUE, <<Entry("r1", "fits")>>, TRUE, Num(9)))>>)],
     [kind |-> "content",
      content |-> Text(<<TokJ(JObj(TRUE, <<Entry("r2", "fits"), Entry("r1", "fits")>>,
                                   TRUE, Num(8)))>>)]}
\* a request and the replies its own calls will get
Scripts ==
    [coordinates : CoordinateInputs, geo1 : {[ok |-> TRUE, address |-> Address("Denpasar", "Bali")]},
     poi1 : {PoiError}, venue : PairVenueReplies, reply : PairLlmReplies,
     geo2 : SvcGeoReplies, poi2 : {PoiError}, commit : CommitReplies]

\* line 456: str(uuid.uuid4()), an id no earlier call has produced; the
\* argument counts the ids produced so far
NewSessionId_Constant(issued) == 1

NewSessionId(issued) == issued + 1

\* the locals of a handler that has not run yet
NewHandler(script) ==
    [pc |-> "start", script |-> script, sid |-> 0, restaurants_data |-> <<>>,
     analysis_response |-> NoneText, service_area |-> "", response |-> NoResponse,
     error |-> "", http |-> NoHttp]

InitPair ==
    /\ handlers \in [Handlers -> {NewHandler(sc) : sc \in Scripts}]
    /\ SvcIdle
    /\ response_content = NoneText
    /\ parsed = NotCalled
    /\ area_in = NoAreaIn
    /\ area_out = AreaNotCalled
    /\ FetchIdle
    /\ GeocodeIdle

\* line 456
PairStart(h) ==
    /\ handlers[h].pc = "start"
    /\ handlers' = [handlers EXCEPT ![h].pc = "fetch",
                                    ![h].sid = NewSessionId(session_id)]
    /\ session_id' = session_id + 1
    /\ UNCHANGED <<db, single_vars, parse_vars, area_vars, fetch_vars, geocode_vars>>

\* line 54
PairFetch(h) ==
    /\ handlers[h].pc = "fetch"
    /\ LET sc == handlers[h].script
           area == GetNearestServiceArea(sc.coordinates, sc.geo1, sc.poi1)
       IN  handlers' = [handlers EXCEPT
                           ![h].pc = "llm",
                           ![h].restaurants_data = FetchRestaurantsFromGofood(area, sc.venue)]
    /\ UNCHANGED <<shared_vars, single_vars, parse_vars, area_vars, fetch_vars,
                   geocode_vars>>

\* lines 59-134
PairLlm(h) ==
    /\ handlers[h].pc = "llm"
    /\ LET outcome == LlmOutcome(handlers[h].script.reply)
       IN  handlers' =
               IF outcome.raised # ""
               THEN [handlers EXCEPT ![h].pc = "failed",
                                     ![h].error = outcome.raised,
                                     ![h].http = HandleInvalidRequest(outcome.raised)]
               ELSE [handlers EXCEPT ![h].pc = "resolve",
                                     ![h].analysis_response = outcome.content]
    /\ UNCHANGED <<shared_vars, single_vars, parse_vars, area_vars, fetch_vars,
                   geocode_vars>>

\* line 479
PairResolve(h) ==
    /\ handlers[h].pc = "resolve"
    /\ LET sc == handlers[h].script
           area == GetNearestServiceArea(sc.coordinates, sc.geo2, sc.poi2)
       IN  handlers' =
               IF area.raised
               THEN [handlers EXCEPT ![h].pc = "failed",
                                     ![h].error = "RuntimeError",
                                     ![h].http = HandleInvalidRequest("RuntimeError")]
               ELSE [handlers EXCEPT ![h].pc = "assemble",
                                     ![h].service_area = area.service_area]
    /\ UNCHANGED <<shared_vars, single_vars, parse_vars, area_vars, fetch_vars,
                   geocode_vars>>

\* lines 482-566
PairAssemble(h) ==
    /\ handlers[h].pc = "assemble"
    /\ LET r == AssembleResponse(handlers[h].restaurants_data,
                                 handlers[h].analysis_response,
                                 handlers[h].service_area)
       IN  handlers' =
               IF r.raised = ""
               THEN [handlers EXCEPT ![h].pc = "save", ![h].response = r.response]
               ELSE [handlers EXCEPT ![h].pc = "failed",
                                     ![h].error = r.raised,
                                     ![h].http = HandleInvalidRequest(r.raised)]
    /\ UNCHANGED <<shared_vars, single_vars, parse_vars, area_vars, fetch_vars,
                   geocode_vars>>

\* routes/restaurants.py lines 54-67, each handler through its own session
PairSave(h) ==
    /\ handlers[h].pc = "save"
    /\ LET me == handlers[h]
           saved == SaveRecommendation(db, me.sid, FormatLocation(me.script.coordinates),
                                       me.response.restaurants, me.response.matchScore,
                                       me.script.commit)
       IN  /\ db' = saved.table
           /\ handlers' =
                  IF saved.raised = ""
                  THEN [handlers EXCEPT ![h].pc = "done", ![h].http = HttpOk]
                  ELSE [handlers EXCEPT ![h].pc = "failed",
                                        ![h].error = saved.raised,
                                        ![h].http = HandleInvalidRequest(saved.raised),
                                        ![h].response = NoResponse]
    /\ UNCHANGED <<session_id, single_vars, parse_vars, area_vars, fetch_vars,
                   geocode_vars>>

NextPair ==
    \/ \E h \in Handlers : PairStart(h)
    \/ \E h \in Handlers : PairFetch(h)
    \/ \E h \in Handlers : PairLlm(h)
    \/ \E h \in Handlers : PairResolve(h)
    \/ \E h \in Handlers : PairAssemble(h)
    \/ \E h \in Handlers : PairSave(h)

SpecPair == InitPair /\ [][NextPair]_vars


---------------------------------------------------------------------------
(* Properties of two concurrent requests, checked under SpecPair.          *)

PairFinished(h) == handlers[h].pc \in {"done", "failed"}
\* the rows of the table that carry a handler's session id
RowsOf(h) == {i \in 1..Len(db) : db[i].session_id = handlers[h].sid}
\* what the route makes of a handler's own request and of the replies to
\* its own calls, starting from an empty table
OwnOutcome(h) ==
    LET sc == handlers[h].script
    IN  GetRestaurantRecommendations(
            <<>>, handlers[h].sid, sc.coordinates,
            RecommendationsService(
                GetNearestServiceArea(sc.coordinates, sc.geo1, sc.poi1), sc.venue,
                sc.reply, GetNearestServiceArea(sc.coordinates, sc.geo2, sc.poi2)),
            sc.commit)
OwnResult(h) ==
    /\ handlers[h].http = OwnOutcome(h).http
    /\ handlers[h].response = OwnOutcome(h).response
    /\ handlers[h].error = OwnOutcome(h).error
    /\ IF OwnOutcome(h).table = <<>> THEN RowsOf(h) = {}
       ELSE \E i \in 1..Len(db) : RowsOf(h) = {i} /\ db[i] = OwnOutcome(h).table[1]
DistinctSessionIds ==
    \A i, j \in 1..Len(db) : i # j => db[i].session_id # db[j].session_id
\* a step changes the locals of one handler at most and only appends to the
\* table
StepIsLocal ==
    /\ \A g, h \in Handlers :
          (g # h /\ handlers'[h] # handlers[h]) => handlers'[g] = handlers[g]
    /\ Len(db') >= Len(db)
    /\ SubSeq(db', 1, Len(db)) = db

\* C21: however the steps of two concurrent requests interleave, each
\* request's answer and its persisted record are those its own inputs and
\* the replies to its own calls determine, a step of one request leaves the
\* other's locals and the rows already written alone, and the persisted
\* records carry distinct session ids.
C21_RequestsIndependent ==
    /\ [](\A h \in Handlers :
            /\ PairFinished(h) => OwnResult(h)
            /\ ~PairFinished(h) => RowsOf(h) = {})
    /\ []DistinctSessionIds
    /\ [][StepIsLocal]_vars

\* both requests answered 200 from different inputs, the one that started
\* second having saved first
C21_Witness_InterleavedPair ==
    /\ \A h \in Handlers : handlers[h].pc = "done"
    /\ Len(db) = 2
    /\ db[1].session_id > db[2].session_id
    /\ handlers[1].script.coordinates # handlers[2].script.coordinates
    /\ handlers[1].response # handlers[2].response

====
